---- MODULE Spec2Model ----
(***************************************************************************)
(* A model of tick_taker.py: the per-symbol quote dictionary kept by       *)
(* Quote, the share ledger kept by Position, and the three stream          *)
(* handlers on_quote, on_trade and on_trade_updates defined in run().      *)
(*                                                                         *)
(* Prices are integers in thousandths of a dollar (10 = one cent), so that *)
(* round(x, 2) and round(x, 3) of the source are different operations.     *)
(* Timestamps are integers in milliseconds.  Each handler is one atomic    *)
(* action: the handlers are coroutines without an await in their bodies.   *)
(***************************************************************************)
EXTENDS Integers, Sequences, FiniteSets, TLC

VARIABLES
    symbol_dict,    \* Quote.symbol_dict: symbol -> the dict object bound to it
    store,          \* the dict objects themselves: object -> its fields
    position,       \* the Position object
    gw_orders,      \* orders live at the gateway: id -> the order sent
    err,            \* the exception that escaped the last handler
    attempted,      \* history: the symbols for which submit_order has been
                    \* called since their last level change, or Unobserved
    flag_set_by     \* history: what wrote the traded flag of default_dict
                    \* last ("startup", "level_change", "order"), or NotRecorded

vars == <<symbol_dict, store, position, gw_orders, err, attempted, flag_set_by>>

(***************************************************************************)
(* Bounds of the model.                                                    *)
(***************************************************************************)
MaxLive == 1        \* the gateway refuses an order while this many are live
MaxLevelCt == 3     \* quotes that would raise level_ct above this are cut

(***************************************************************************)
(* Constants of the program.                                               *)
(***************************************************************************)
max_shares == 500   \* --quantity, default
LotShares == 100    \* the literal 100 of remove_pending_order and on_trade
DebounceMs == 50    \* np.timedelta64(50, 'ms')

Symbols == {"SNAP", "AAPL"}
NoDict == "NoDict"
Unobserved == {"Unobserved"}
NotRecorded == "NotRecorded"
DefaultRef == "default_dict"
Refs == {DefaultRef} \cup Symbols

\* Inputs of the stream.
BidPrices == {10000, 10010}
AskPrices == {10010, 10012, 10020}
Sizes == {100, 300}
QuoteTimes == {1000, 1010}
TradePrices == {10000, 10010, 10020}
TradeSizes == {50, 100}
TradeTimes == {1030, 1050, 1060}
PartialQtys == {<<4, 0>>, <<7, 0>>}
FullQty == <<1, 0, 0>>
Events == {"fill", "partial_fill", "canceled", "rejected"}

(***************************************************************************)
(* Quote                                                                   *)
(***************************************************************************)
\* A default dictionary that starts eligible.
default_dict_untraded ==
    [prev_bid |-> 0, prev_ask |-> 0, prev_spread |-> 0, bid |-> 0, ask |-> 0,
     bid_size |-> 0, ask_size |-> 0, spread |-> 0, traded |-> FALSE,
     level_ct |-> 1, time |-> 0]

\* Quote.__init__: the one default dictionary.
default_dict ==
    [prev_bid |-> 0, prev_ask |-> 0, prev_spread |-> 0, bid |-> 0, ask |-> 0,
     bid_size |-> 0, ask_size |-> 0, spread |-> 0, traded |-> TRUE,
     level_ct |-> 1, time |-> 0]

\* round(x, ndigits) on a value in thousandths, ties to even.
Round(x, ndigits) ==
    LET unit == IF ndigits = 2 THEN 10 ELSE 1
        q == x \div unit
        r == x % unit
    IN  IF 2 * r < unit THEN q * unit
        ELSE IF 2 * r > unit THEN (q + 1) * unit
        ELSE IF q % 2 = 0 THEN q * unit ELSE (q + 1) * unit

\* get_symbol_dict: the object a symbol is bound to after the call.  A symbol
\* seen for the first time is bound to default_dict itself, not to a copy.
get_symbol_dict(symbol) ==
    IF symbol_dict[symbol] # NoDict THEN symbol_dict[symbol] ELSE DefaultRef

\* get_symbol_dict: its effect on Quote.symbol_dict.
Bind(symbol) ==
    [symbol_dict EXCEPT ![symbol] = get_symbol_dict(symbol)]

\* A reset_dict that counts the level and leaves the traded flag alone.
reset_dict_no_arm(d) ==
    [d EXCEPT !.level_ct = d.level_ct + 1]

\* reset_dict
reset_dict(d) ==
    [d EXCEPT !.traded = FALSE, !.level_ct = d.level_ct + 1]

\* A level change that asks for a move of the bid or of the ask, not of both.
LevelChange_either(d, bidprice, askprice) ==
    /\ (d.bid # bidprice \/ d.ask # askprice)
    /\ Round(askprice - bidprice, 2) = 10

\* The condition of Quote.update: a level change.
LevelChange(d, bidprice, askprice) ==
    /\ d.bid # bidprice
    /\ d.ask # askprice
    /\ Round(askprice - bidprice, 2) = 10

\* A Quote.update that resets at every level change, whatever prev_spread.
update_always_resets(d, bidprice, askprice, bidsize, asksize, timestamp) ==
    LET d1 == [d EXCEPT !.bid_size = bidsize, !.ask_size = asksize]
        d2 == [d1 EXCEPT !.prev_bid = d1.bid, !.prev_ask = d1.ask,
                         !.bid = bidprice, !.ask = askprice,
                         !.time = timestamp,
                         !.prev_spread = Round(d1.ask - d1.bid, 3),
                         !.spread = Round(askprice - bidprice, 3)]
    IN  IF LevelChange(d1, bidprice, askprice) THEN reset_dict(d2) ELSE d1

\* A Quote.update that stores the level change and never resets.
update_never_resets(d, bidprice, askprice, bidsize, asksize, timestamp) ==
    LET d1 == [d EXCEPT !.bid_size = bidsize, !.ask_size = asksize]
        d2 == [d1 EXCEPT !.prev_bid = d1.bid, !.prev_ask = d1.ask,
                         !.bid = bidprice, !.ask = askprice,
                         !.time = timestamp,
                         !.prev_spread = Round(d1.ask - d1.bid, 3),
                         !.spread = Round(askprice - bidprice, 3)]
    IN  IF LevelChange(d1, bidprice, askprice) THEN d2 ELSE d1

\* Quote.update on the dict d of the symbol.
update(d, bidprice, askprice, bidsize, asksize, timestamp) ==
    LET d1 == [d EXCEPT !.bid_size = bidsize, !.ask_size = asksize]
        d2 == [d1 EXCEPT !.prev_bid = d1.bid, !.prev_ask = d1.ask,
                         !.bid = bidprice, !.ask = askprice,
                         !.time = timestamp,
                         !.prev_spread = Round(d1.ask - d1.bid, 3),
                         !.spread = Round(askprice - bidprice, 3)]
    IN  IF LevelChange(d1, bidprice, askprice)
        THEN IF d2.prev_spread = 10 THEN reset_dict(d2) ELSE d2
        ELSE d1

(***************************************************************************)
(* Position                                                                *)
(***************************************************************************)
\* Position.__init__
NewPosition ==
    [orders_filled_amount |-> << >>, pending_buy_shares |-> 0,
     pending_sell_shares |-> 0, total_shares |-> 0]

update_pending_buy_shares(p, quantity) ==
    [p EXCEPT !.pending_buy_shares = p.pending_buy_shares + quantity]

update_pending_sell_shares(p, quantity) ==
    [p EXCEPT !.pending_sell_shares = p.pending_sell_shares + quantity]

update_total_shares(p, quantity) ==
    [p EXCEPT !.total_shares = p.total_shares + quantity]

\* orders_filled_amount[order_id] = amount
SetFilled(p, order_id, amount) ==
    [p EXCEPT !.orders_filled_amount =
        [i \in DOMAIN p.orders_filled_amount \cup {order_id} |->
            IF i = order_id THEN amount ELSE p.orders_filled_amount[i]]]

\* del orders_filled_amount[order_id]
DelFilled(p, order_id) ==
    [p EXCEPT !.orders_filled_amount =
        [i \in DOMAIN p.orders_filled_amount \ {order_id} |->
            p.orders_filled_amount[i]]]

\* A handler's result: the position it leaves and the exception it raises.
Ok(p) == [position |-> p, raised |-> "none"]
KeyError(p) == [position |-> p, raised |-> "KeyError"]

\* orders_filled_amount[order_id] raises KeyError for an unknown id.
Known(p, order_id) == order_id \in DOMAIN p.orders_filled_amount

\* An update_filled_amount that books the reported amount, not the increase.
update_filled_amount_absolute(p, order_id, new_amount, side) ==
    IF ~Known(p, order_id) THEN KeyError(p)
    ELSE LET old_amount == p.orders_filled_amount[order_id]
         IN  IF new_amount > old_amount
             THEN Ok(SetFilled(
                    IF side = "buy"
                    THEN update_total_shares(
                            update_pending_buy_shares(p, -new_amount), new_amount)
                    ELSE update_total_shares(
                            update_pending_sell_shares(p, -new_amount), -new_amount),
                    order_id, new_amount))
             ELSE Ok(p)

update_filled_amount(p, order_id, new_amount, side) ==
    IF ~Known(p, order_id) THEN KeyError(p)
    ELSE LET old_amount == p.orders_filled_amount[order_id]
         IN  IF new_amount > old_amount
             THEN Ok(SetFilled(
                    IF side = "buy"
                    THEN update_total_shares(
                            update_pending_buy_shares(p, old_amount - new_amount),
                            new_amount - old_amount)
                    ELSE update_total_shares(
                            update_pending_sell_shares(p, old_amount - new_amount),
                            old_amount - new_amount),
                    order_id, new_amount))
             ELSE Ok(p)

\* A remove_pending_order that takes the whole lot off the pending counter,
\* whatever part of it partial fills have already taken off.
remove_pending_order_whole_lot(p, order_id, side) ==
    IF ~Known(p, order_id) THEN KeyError(p)
    ELSE Ok(DelFilled(
            IF side = "buy"
            THEN update_pending_buy_shares(p, -LotShares)
            ELSE update_pending_sell_shares(p, -LotShares),
            order_id))

\* A remove_pending_order that passes over an order it does not know.
remove_pending_order_lenient(p, order_id, side) ==
    IF ~Known(p, order_id) THEN Ok(p)
    ELSE LET old_amount == p.orders_filled_amount[order_id]
         IN  Ok(DelFilled(
                IF side = "buy"
                THEN update_pending_buy_shares(p, old_amount - LotShares)
                ELSE update_pending_sell_shares(p, old_amount - LotShares),
                order_id))

remove_pending_order(p, order_id, side) ==
    IF ~Known(p, order_id) THEN KeyError(p)
    ELSE LET old_amount == p.orders_filled_amount[order_id]
         IN  Ok(DelFilled(
                IF side = "buy"
                THEN update_pending_buy_shares(p, old_amount - LotShares)
                ELSE update_pending_sell_shares(p, old_amount - LotShares),
                order_id))

\* int(data.order['filled_qty']): the decimal digits of the wire string.
RECURSIVE int(_)
int(s) == IF s = << >> THEN 0 ELSE 10 * int(SubSeq(s, 1, Len(s) - 1)) + s[Len(s)]

(***************************************************************************)
(* The initial state: after run() has built Quote() and Position().        *)
(***************************************************************************)
Start ==
    /\ symbol_dict = [s \in Symbols |-> NoDict]
    /\ store = [r \in Refs |-> default_dict]
    /\ position = NewPosition
    /\ gw_orders = << >>
    /\ err = "none"

Init == Start /\ attempted = Unobserved /\ flag_set_by = NotRecorded

\* The same program with the history of submit_order calls recorded.
InitObserved == Start /\ attempted = {} /\ flag_set_by = "startup"

(***************************************************************************)
(* on_quote                                                                *)
(***************************************************************************)
on_quote(symbol, bidprice, askprice, bidsize, asksize, timestamp) ==
    LET ref == get_symbol_dict(symbol)
        d == update(store[ref], bidprice, askprice, bidsize, asksize, timestamp)
    IN  /\ d.level_ct <= MaxLevelCt
        /\ symbol_dict' = Bind(symbol)
        /\ store' = [store EXCEPT ![ref] = d]
        /\ attempted' = IF attempted # Unobserved
                           /\ LevelChange(store[ref], bidprice, askprice)
                        THEN attempted \ {symbol} ELSE attempted
        /\ flag_set_by' = IF /\ flag_set_by # NotRecorded
                              /\ LevelChange(store[ref], bidprice, askprice)
                              /\ d.prev_spread = 10
                           THEN "level_change" ELSE flag_set_by
        /\ err' = "none"
        /\ UNCHANGED <<position, gw_orders>>

Quote ==
    \E symbol \in Symbols, bidprice \in BidPrices, askprice \in AskPrices,
       bidsize \in Sizes, asksize \in Sizes, timestamp \in QuoteTimes :
        on_quote(symbol, bidprice, askprice, bidsize, asksize, timestamp)

(***************************************************************************)
(* on_trade                                                                *)
(***************************************************************************)
\* A debounce that lets a trade at exactly 50 ms through.
TooClose_strict(timestamp, time) == timestamp < time + DebounceMs

\* The trade came too close to the quote update.
TooClose(timestamp, time) == timestamp <= time + DebounceMs

\* bid_size > ask_size * 1.8, in tenths.
Outweighs(size, other) == 10 * size > 18 * other

\* A cap that lets a buy through at exactly max_shares - 100.
BuyRoom_inclusive(p) ==
    p.total_shares + p.pending_buy_shares <= max_shares - 100

\* Room under the cap for one more lot.
BuyRoom(p) == p.total_shares + p.pending_buy_shares < max_shares - 100

\* A sell that asks for no shares in hand.
SellRoom_any(p) == p.total_shares - p.pending_sell_shares >= 0

\* Enough shares that are not already pending a sell.
SellRoom(p) == p.total_shares - p.pending_sell_shares >= 100

BuySignal(d, p, price) ==
    /\ price = d.ask
    /\ Outweighs(d.bid_size, d.ask_size)
    /\ BuyRoom(p)

SellSignal(d, p, price) ==
    /\ price = d.bid
    /\ Outweighs(d.ask_size, d.bid_size)
    /\ SellRoom(p)

\* The branch on_trade takes: "buy", "sell", or "none" for each return
\* and each condition that fails.
Decision(d, p, price, size, timestamp) ==
    IF d.traded THEN "none"
    ELSE IF TooClose(timestamp, d.time) THEN "none"
    ELSE IF size >= 100
         THEN IF BuySignal(d, p, price) THEN "buy"
              ELSE IF SellSignal(d, p, price) THEN "sell"
              ELSE "none"
         ELSE "none"

\* What the gateway would do with the two calls of the try block.
Outcomes == {"ok", "submit_fails", "cancel_fails"}

\* The gateway takes the order that submit_order sends.
Accepts(outcome) ==
    outcome # "submit_fails" /\ Cardinality(DOMAIN gw_orders) < MaxLive

\* The id the gateway gives to the order it takes: one that no live order
\* and no ledger entry bears.
next_id ==
    CHOOSE i \in 1..(MaxLive + 1) :
        /\ i \notin DOMAIN gw_orders
        /\ \A j \in 1..(i - 1) : j \in DOMAIN gw_orders

\* The order that submit_order sends.
Order(symbol, side, d) ==
    [symbol |-> symbol, qty |-> 100, side |-> side,
     limit_price |-> IF side = "buy" THEN d.ask ELSE d.bid]

\* Statements after cancel_order that open the ledger entry and leave the
\* pending counter as it was.
Track_no_pending(p, order_id, side) ==
    SetFilled(p, order_id, 0)

\* The statements of the try block that follow a cancel_order that returned.
Track(p, order_id, side) ==
    SetFilled(IF side = "buy" THEN update_pending_buy_shares(p, 100)
              ELSE update_pending_sell_shares(p, 100),
              order_id, 0)

\* The try block of either side: submit_order, cancel_order, the ledger, the
\* traded flag.  An exception of either call leaves the block at that call.
Submit(symbol, side, ref, outcome) ==
    /\ attempted' = IF attempted # Unobserved
                    THEN attempted \cup {symbol} ELSE attempted
    /\ IF Accepts(outcome)
       THEN /\ gw_orders' = [i \in DOMAIN gw_orders \cup {next_id} |->
                                IF i = next_id
                                THEN Order(symbol, side, store[ref])
                                ELSE gw_orders[i]]
            /\ IF outcome = "ok"
               THEN /\ position' = Track(position, next_id, side)
                    /\ store' = [store EXCEPT ![ref].traded = TRUE]
                    /\ flag_set_by' = IF flag_set_by # NotRecorded
                                       THEN "order" ELSE flag_set_by
               ELSE UNCHANGED <<position, store, flag_set_by>>
       ELSE UNCHANGED <<gw_orders, position, store, flag_set_by>>

on_trade(symbol, price, size, timestamp, outcome) ==
    LET ref == get_symbol_dict(symbol)
        side == Decision(store[ref], position, price, size, timestamp)
    IN  /\ symbol_dict' = Bind(symbol)
        /\ err' = "none"
        /\ IF side = "none"
           THEN UNCHANGED <<store, position, gw_orders, attempted, flag_set_by>>
           ELSE Submit(symbol, side, ref, outcome)

Trade ==
    \E symbol \in Symbols, price \in TradePrices, size \in TradeSizes,
       timestamp \in TradeTimes, outcome \in Outcomes :
        on_trade(symbol, price, size, timestamp, outcome)

(***************************************************************************)
(* on_trade_updates                                                        *)
(***************************************************************************)
\* The handler's effect on the position, and the exception it lets escape.
apply_update(p, order_id, event, side, filled_qty) ==
    IF event = "fill"
    THEN remove_pending_order(
            IF side = "buy" THEN update_total_shares(p, int(filled_qty))
            ELSE update_total_shares(p, -1 * int(filled_qty)),
            order_id, side)
    ELSE IF event = "partial_fill"
    THEN update_filled_amount(p, order_id, int(filled_qty), side)
    ELSE IF event = "canceled" \/ event = "rejected"
    THEN remove_pending_order(p, order_id, side)
    ELSE Ok(p)

\* The gateway's side of an event: a terminal event ends the order.
Terminal(event) == event \in {"fill", "canceled", "rejected"}

\* The filled_qty the gateway reports with an event.
Qtys(event) ==
    IF event = "partial_fill" THEN PartialQtys
    ELSE IF event = "fill" THEN {FullQty}
    ELSE {<<0>>}

on_trade_updates(order_id, event, filled_qty) ==
    LET res == apply_update(position, order_id, event,
                            gw_orders[order_id].side, filled_qty)
    IN  /\ position' = res.position
        /\ err' = res.raised
        /\ gw_orders' = IF Terminal(event)
                        THEN [i \in DOMAIN gw_orders \ {order_id} |-> gw_orders[i]]
                        ELSE gw_orders
        /\ UNCHANGED <<symbol_dict, store, attempted, flag_set_by>>

TradeUpdate ==
    \E order_id \in DOMAIN gw_orders, event \in Events :
        \E filled_qty \in Qtys(event) :
            on_trade_updates(order_id, event, filled_qty)

Next == Quote \/ Trade \/ TradeUpdate

Spec == Init /\ [][Next]_vars

SpecObserved == InitObserved /\ [][Next]_vars

(***************************************************************************)
(* Properties.                                                             *)
(***************************************************************************)
\* The dictionary a handler reads for a symbol.
DictOf(symbol) == store[get_symbol_dict(symbol)]

\* The model's own consistency: every ledger entry is an order live at the
\* gateway, ids are 1..MaxLive, and the fields stay in their ranges.
TypeOK ==
    /\ symbol_dict \in [Symbols -> {NoDict, DefaultRef}]
    /\ DOMAIN gw_orders \subseteq 1..MaxLive
    /\ \A i \in DOMAIN gw_orders : gw_orders[i].side \in {"buy", "sell"}
    /\ DOMAIN position.orders_filled_amount \subseteq DOMAIN gw_orders
    /\ err \in {"none", "KeyError"}
    /\ store[DefaultRef].level_ct \in 1..MaxLevelCt
    /\ \A s \in Symbols : store[s] = default_dict

\* C1: for every symbol, once submit_order has been called for it, no trade
\* leads to another submit_order call for it until its next level change.
C1_OneAttemptPerLevel ==
    \A symbol \in Symbols :
        symbol \in attempted =>
            \A price \in TradePrices, size \in TradeSizes, timestamp \in TradeTimes :
                Decision(DictOf(symbol), position, price, size, timestamp) = "none"

\* A step that processes a level change after which prev_spread is one cent.
PennyLevelChangeStep ==
    \E symbol \in Symbols, bidprice \in BidPrices, askprice \in AskPrices,
       bidsize \in Sizes, asksize \in Sizes, timestamp \in QuoteTimes :
        /\ on_quote(symbol, bidprice, askprice, bidsize, asksize, timestamp)
        /\ DictOf(symbol).bid # bidprice
        /\ DictOf(symbol).ask # askprice
        /\ Round(askprice - bidprice, 2) = 10
        /\ store'[get_symbol_dict(symbol)].prev_spread = 10

\* A step that processes a trade on which the gateway took an order.
OrderTakenStep ==
    \E symbol \in Symbols, price \in TradePrices, size \in TradeSizes,
       timestamp \in TradeTimes, outcome \in Outcomes :
        /\ on_trade(symbol, price, size, timestamp, outcome)
        /\ DOMAIN gw_orders' # DOMAIN gw_orders

\* C2: the eligible flag (not traded) of a symbol goes from false to true only
\* in a step that processes a level change with prev_spread of one cent, and
\* from true to false only in a step that processes a trade whose order the
\* gateway took; no other step changes it.
C2_EligibleFlips ==
    [][\A s \in Symbols :
        symbol_dict[s] # NoDict =>
            LET before == ~store[symbol_dict[s]].traded
                after == ~store'[symbol_dict'[s]].traded
            IN  /\ (~before /\ after) => PennyLevelChangeStep
                /\ (before /\ ~after) => OrderTakenStep]_vars

\* C2 witness: a symbol that became eligible at a level change and lost the
\* flag again to an order.
C2_Witness ==
    \E s \in Symbols :
        /\ symbol_dict[s] # NoDict
        /\ store[symbol_dict[s]].level_ct = 2
        /\ store[symbol_dict[s]].traded
        /\ position.orders_filled_amount # << >>

\* What Quote.update does to the dictionary d of the symbol, d2 after it.
QuoteEffect(d, d2, bidprice, askprice, bidsize, asksize, timestamp) ==
    LET changes == /\ bidprice # d.bid
                   /\ askprice # d.ask
                   /\ Round(askprice - bidprice, 2) = 10
    IN  /\ d2.bid_size = bidsize
        /\ d2.ask_size = asksize
        /\ (d2.bid # d.bid \/ d2.ask # d.ask) <=> changes
        /\ changes =>
            /\ d2.bid = bidprice /\ d2.ask = askprice
            /\ d2.prev_bid = d.bid /\ d2.prev_ask = d.ask
            /\ d2.spread = askprice - bidprice
            /\ d2.prev_spread = d.ask - d.bid
            /\ d2.time = timestamp
        /\ ~changes =>
            d2 = [d EXCEPT !.bid_size = bidsize, !.ask_size = asksize]

NewOrders == DOMAIN gw_orders' \ DOMAIN gw_orders

\* A step that leaves the quote dictionaries, the ledger and the gateway alone.
Untouched == UNCHANGED <<store, position, gw_orders>>

\* The gateway has room for one more order.
GatewayFree == Cardinality(DOMAIN gw_orders) < MaxLive

\* C4, as the claim has it: from a fresh process the first one-cent quote with
\* the bid size above 1.8 times the ask size leaves the symbol eligible.
C4_FirstQuoteArms ==
    \A symbol \in Symbols :
        LET d == DictOf(symbol)
        IN  (/\ symbol_dict[symbol] # NoDict
             /\ d.prev_bid = 0 /\ d.bid # 0 /\ d.spread = 10
             /\ 10 * d.bid_size > 18 * d.ask_size
             /\ position = NewPosition
             /\ gw_orders = << >>) => ~d.traded

\* C4, as the source has it: the first one-cent quote leaves the symbol not
\* eligible, and the next level change, from that one-cent level to another,
\* makes it eligible.
C4_SecondQuoteArms ==
    \A symbol \in Symbols, bidprice \in BidPrices, askprice \in AskPrices,
       bidsize \in Sizes, asksize \in Sizes, timestamp \in QuoteTimes :
        LET d == DictOf(symbol)
            first == /\ store[DefaultRef] = default_dict
                     /\ position = NewPosition
            second == /\ d.prev_bid = 0 /\ d.bid # 0 /\ d.spread = 10
                      /\ bidprice # d.bid /\ askprice # d.ask
        IN  (/\ first \/ second
             /\ askprice - bidprice = 10
             /\ 10 * bidsize > 18 * asksize) =>
                /\ ENABLED on_quote(symbol, bidprice, askprice, bidsize, asksize, timestamp)
                /\ ~ENABLED (/\ on_quote(symbol, bidprice, askprice, bidsize, asksize,
                                         timestamp)
                             /\ store'[get_symbol_dict(symbol)].traded # first)

\* The order of a 100-share buy at the stored ask is live, in the ledger with
\* nothing filled and 100 shares pending, and the symbol is not eligible.
Bought(symbol) ==
    \E id \in NewOrders :
        /\ NewOrders = {id}
        /\ gw_orders'[id] = [symbol |-> symbol, qty |-> 100, side |-> "buy",
                             limit_price |-> DictOf(symbol).ask]
        /\ store'[get_symbol_dict(symbol)].traded
        /\ position' = [NewPosition EXCEPT !.pending_buy_shares = 100,
                                           !.orders_filled_amount = id :> 0]

\* C4, the trade: with an empty ledger, a trade at the stored ask of an
\* eligible symbol, of size 100 or more, later than 50 ms after the level
\* change, with the bid size above 1.8 times the ask size, buys.
C4_TradeBuys ==
    \A symbol \in Symbols, price \in TradePrices, size \in TradeSizes,
       timestamp \in TradeTimes :
        LET d == DictOf(symbol)
        IN  (/\ ~d.traded
             /\ price = d.ask
             /\ size >= 100
             /\ timestamp > d.time + 50
             /\ 10 * d.bid_size > 18 * d.ask_size
             /\ position = NewPosition
             /\ gw_orders = << >>) =>
                /\ ENABLED on_trade(symbol, price, size, timestamp, "ok")
                /\ ~ENABLED (/\ on_trade(symbol, price, size, timestamp, "ok")
                             /\ ~Bought(symbol))

\* C4, the fill: the fill of that order leaves 100 shares, none pending, and
\* no ledger entry.
C4_FillSettles ==
    \A id \in DOMAIN gw_orders :
        (/\ gw_orders[id].side = "buy"
         /\ position = [NewPosition EXCEPT !.pending_buy_shares = 100,
                                           !.orders_filled_amount = id :> 0]) =>
            /\ ENABLED on_trade_updates(id, "fill", FullQty)
            /\ ~ENABLED (/\ on_trade_updates(id, "fill", FullQty)
                         /\ position' # [NewPosition EXCEPT !.total_shares = 100])

C5_BuyOnlyUnderCap ==
    \A symbol \in Symbols, price \in TradePrices, size \in TradeSizes,
       timestamp \in TradeTimes, outcome \in Outcomes :
        LET d == DictOf(symbol)
            total == position.total_shares
            pending == position.pending_buy_shares
        IN  /\ ~(total + pending < max_shares - 100) =>
                ~ENABLED (/\ on_trade(symbol, price, size, timestamp, outcome)
                          /\ \E id \in NewOrders : gw_orders'[id].side = "buy")
            /\ (/\ max_shares = 500 /\ total = 400 /\ pending = 0
                /\ ~d.traded
                /\ timestamp > d.time + 50
                /\ size >= 100
                /\ price = d.ask
                /\ 10 * d.bid_size > 18 * d.ask_size) =>
                    ~ENABLED (/\ on_trade(symbol, price, size, timestamp, outcome)
                              /\ ~Untouched)

\* C5 witness: 400 shares held, none pending, and a symbol on which a trade at
\* the ask at 1060 ms meets every other condition of a buy.
C5_Witness ==
    /\ position.total_shares = 400
    /\ position.pending_buy_shares = 0
    /\ gw_orders = << >>
    /\ \E symbol \in Symbols :
        LET d == DictOf(symbol)
        IN  /\ ~d.traded
            /\ d.time + 50 < 1060
            /\ d.ask \in TradePrices
            /\ 10 * d.bid_size > 18 * d.ask_size

\* C6: in every reachable state total_shares + pending_buy_shares <= max_shares.
C6_PositionUnderCap ==
    position.total_shares + position.pending_buy_shares <= max_shares

\* The position after a partial_fill of new_amount shares for a ledger entry.
AfterPartial(order_id, new_amount) ==
    LET old_amount == position.orders_filled_amount[order_id]
        moved == new_amount - old_amount
    IN  IF new_amount <= old_amount THEN position
        ELSE IF gw_orders[order_id].side = "buy"
        THEN [position EXCEPT !.orders_filled_amount[order_id] = new_amount,
                              !.pending_buy_shares = @ - moved,
                              !.total_shares = @ + moved]
        ELSE [position EXCEPT !.orders_filled_amount[order_id] = new_amount,
                              !.pending_sell_shares = @ - moved,
                              !.total_shares = @ - moved]

\* C7: for an order in the ledger, a partial_fill whose filled_qty is not above
\* the recorded amount changes nothing in the ledger; one with a larger
\* filled_qty moves the difference from the pending counter of the side into
\* total_shares (added for a buy, subtracted for a sell) and records it.
C7_PartialFillDelta ==
    \A order_id \in DOMAIN position.orders_filled_amount :
        \A qa \in {<< <<4, 0>>, 40 >>, << <<7, 0>>, 70 >>} :
            /\ qa[1] \in PartialQtys
            /\ ENABLED on_trade_updates(order_id, "partial_fill", qa[1])
            /\ ~ENABLED (/\ on_trade_updates(order_id, "partial_fill", qa[1])
                         /\ position' # AfterPartial(order_id, qa[2]))

\* C7 witness: a buy with 40 and then 70 of its 100 shares reported filled.
C7_Witness ==
    \E order_id \in DOMAIN position.orders_filled_amount :
        /\ gw_orders[order_id].side = "buy"
        /\ position.orders_filled_amount[order_id] = 70
        /\ position.pending_buy_shares = 30
        /\ position.total_shares = 70

\* C8: a trade stamped at or before the last level change plus 50 ms submits
\* no order and changes no state, whatever its price and size; a later trade
\* that meets the size, price, imbalance and cap conditions of a buy submits.
C8_Debounce ==
    \A symbol \in Symbols, price \in TradePrices, size \in TradeSizes,
       timestamp \in TradeTimes, outcome \in Outcomes :
        LET d == DictOf(symbol)
        IN  /\ timestamp <= d.time + 50 =>
                ~ENABLED (/\ on_trade(symbol, price, size, timestamp, outcome)
                          /\ ~Untouched)
            /\ (/\ timestamp > d.time + 50
                /\ ~d.traded
                /\ size >= 100
                /\ price = d.ask
                /\ 10 * d.bid_size > 18 * d.ask_size
                /\ position.total_shares + position.pending_buy_shares
                       < max_shares - 100
                /\ GatewayFree
                /\ outcome = "ok") =>
                    ENABLED (/\ on_trade(symbol, price, size, timestamp, outcome)
                             /\ NewOrders # {})

\* C8 witness: an eligible symbol whose level changed at 1010 ms, with a buy
\* signal, room under the cap and a free gateway: only the time stamp keeps a
\* trade at the ask at 1060 ms from buying.
C8_Witness ==
    \E symbol \in Symbols :
        LET d == DictOf(symbol)
        IN  /\ ~d.traded
            /\ d.time = 1010
            /\ d.ask \in TradePrices
            /\ 10 * d.bid_size > 18 * d.ask_size
            /\ position.total_shares + position.pending_buy_shares < max_shares - 100
            /\ GatewayFree

\* C9: when submit_order returns and cancel_order raises, the symbol is left
\* not eligible and the pending counter of the side is 100 higher.
C9_CancelFailureKeepsUpdates ==
    [][\A symbol \in Symbols, price \in TradePrices, size \in TradeSizes,
          timestamp \in TradeTimes :
        (/\ on_trade(symbol, price, size, timestamp, "cancel_fails")
         /\ NewOrders # {}) =>
            /\ store'[get_symbol_dict(symbol)].traded
            /\ \A id \in NewOrders :
                IF gw_orders'[id].side = "buy"
                THEN position'.pending_buy_shares
                        = position.pending_buy_shares + 100
                ELSE position'.pending_sell_shares
                        = position.pending_sell_shares + 100]_vars

\* C10: an order update of any kind for an order that has no ledger entry
\* ends in an error that leaves the handler.
C10_UnknownOrderRaises ==
    \A order_id \in DOMAIN gw_orders \ DOMAIN position.orders_filled_amount :
        \A event \in Events :
            \A filled_qty \in Qtys(event) :
                /\ ENABLED on_trade_updates(order_id, event, filled_qty)
                /\ ~ENABLED (/\ on_trade_updates(order_id, event, filled_qty)
                             /\ err' # "KeyError")

\* C10 witness: an update for an order without a ledger entry has raised.
C10_Witness == err = "KeyError"

\* C11: in every reachable state pending_buy_shares >= 0 and
\* pending_sell_shares >= 0, the gateway reporting filled quantities between
\* 0 and the lot of 100, also when a fill, a cancel or a reject follows
\* partial fills of the same order.
C11_PendingNonNegative ==
    /\ position.pending_buy_shares >= 0
    /\ position.pending_sell_shares >= 0

\* C11 witness: an order was partly filled and then ended: 140 shares came
\* from a partial fill of 40 and a terminal event, and nothing is pending.
C11_Witness ==
    /\ position.total_shares = 140
    /\ position.orders_filled_amount = << >>
    /\ position.pending_buy_shares = 0
    /\ position.pending_sell_shares = 0

C13_LevelChangeResets ==
    \A symbol \in Symbols, bidprice \in BidPrices, askprice \in AskPrices,
       bidsize \in Sizes, asksize \in Sizes, timestamp \in QuoteTimes :
        LET d == DictOf(symbol)
            ref == get_symbol_dict(symbol)
        IN  (/\ bidprice # d.bid
             /\ askprice # d.ask
             /\ Round(askprice - bidprice, 2) = 10) =>
                /\ (d.spread # 10 \/ d.level_ct < MaxLevelCt) =>
                        ENABLED on_quote(symbol, bidprice, askprice, bidsize,
                                         asksize, timestamp)
                /\ d.spread = 10 =>
                        ~ENABLED (/\ on_quote(symbol, bidprice, askprice, bidsize,
                                              asksize, timestamp)
                                  /\ ~(/\ ~store'[ref].traded
                                       /\ store'[ref].level_ct = d.level_ct + 1))
                /\ d.spread # 10 =>
                        ~ENABLED (/\ on_quote(symbol, bidprice, askprice, bidsize,
                                              asksize, timestamp)
                                  /\ ~(/\ store'[ref].traded = d.traded
                                       /\ store'[ref].level_ct = d.level_ct))

\* C13 witness: two level changes from a one-cent level were counted, the
\* second one while the symbol was not eligible after a tracked order.
C13_Witness ==
    /\ store[DefaultRef].level_ct = 3
    /\ ~store[DefaultRef].traded
    /\ store[DefaultRef].prev_spread = 10
    /\ position.orders_filled_amount # << >>

\* C14: on_trade submits a sell only when the buy conditions fail, the price
\* is the stored bid, ask_size > 1.8 x bid_size, the size is 100 or more and
\* total_shares - pending_sell_shares >= 100; one trade never submits two
\* orders; every order is for 100 shares at the stored ask (buy) or the
\* stored bid (sell).
C14_SellOnlyWithShares ==
    \A symbol \in Symbols, price \in TradePrices, size \in TradeSizes,
       timestamp \in TradeTimes, outcome \in Outcomes :
        LET d == DictOf(symbol)
            buy == /\ price = d.ask
                   /\ 10 * d.bid_size > 18 * d.ask_size
                   /\ position.total_shares + position.pending_buy_shares
                          < max_shares - 100
            sell == /\ price = d.bid
                    /\ 10 * d.ask_size > 18 * d.bid_size
                    /\ size >= 100
                    /\ position.total_shares - position.pending_sell_shares >= 100
        IN  /\ ~ENABLED (/\ on_trade(symbol, price, size, timestamp, outcome)
                         /\ \E id \in NewOrders : gw_orders'[id].side = "sell"
                         /\ ~(sell /\ ~buy))
            /\ ~ENABLED (/\ on_trade(symbol, price, size, timestamp, outcome)
                         /\ Cardinality(NewOrders) > 1)
            /\ ~ENABLED (/\ on_trade(symbol, price, size, timestamp, outcome)
                         /\ \E id \in NewOrders :
                                \/ gw_orders'[id].qty # 100
                                \/ gw_orders'[id].symbol # symbol
                                \/ gw_orders'[id].limit_price #
                                       (IF gw_orders'[id].side = "buy"
                                        THEN d.ask ELSE d.bid))

\* C14 witness: a sell of 100 shares is live at the stored bid and tracked.
C14_Witness ==
    \E id \in DOMAIN gw_orders :
        /\ gw_orders[id].side = "sell"
        /\ gw_orders[id].qty = 100
        /\ id \in DOMAIN position.orders_filled_amount
        /\ position.pending_sell_shares = 100

\* A step that processes a quote or a trade of the symbol.
StepOf(symbol) ==
    \/ \E bidprice \in BidPrices, askprice \in AskPrices,
          bidsize \in Sizes, asksize \in Sizes, timestamp \in QuoteTimes :
            on_quote(symbol, bidprice, askprice, bidsize, asksize, timestamp)
    \/ \E price \in TradePrices, size \in TradeSizes,
          timestamp \in TradeTimes, outcome \in Outcomes :
            on_trade(symbol, price, size, timestamp, outcome)

\* C15: a quote, a trade or an order attempt of one symbol changes no field
\* of the state held for another symbol.
C15_SymbolIsolation ==
    [][\A symbol \in Symbols, other \in Symbols :
        (/\ other # symbol
         /\ symbol_dict[other] # NoDict
         /\ StepOf(symbol)) =>
            store'[symbol_dict'[other]] = store[symbol_dict[other]]]_vars

\* C16: the fill of a ledger order that partial fills have reported before
\* changes total_shares by what is left of its 100 shares, so that the order
\* counts 100 in total.
C16_FillCountsOnce ==
    [][\A order_id \in DOMAIN position.orders_filled_amount :
        on_trade_updates(order_id, "fill", FullQty) =>
            position'.total_shares =
                IF gw_orders[order_id].side = "buy"
                THEN position.total_shares
                        + (100 - position.orders_filled_amount[order_id])
                ELSE position.total_shares
                        - (100 - position.orders_filled_amount[order_id])]_vars

\* The shares of the side that the ledger entries ids leave open.
RECURSIVE OpenShares(_, _)
OpenShares(side, ids) ==
    IF ids = {} THEN 0
    ELSE LET id == CHOOSE i \in ids : TRUE
         IN  (IF gw_orders[id].side = side
              THEN 100 - position.orders_filled_amount[id] ELSE 0)
             + OpenShares(side, ids \ {id})

C18_AcceptedOrdersTracked ==
    DOMAIN gw_orders \subseteq DOMAIN position.orders_filled_amount

\* C19: an order update that ends in KeyError leaves total_shares, the
\* pending counters and the ledger as they were.
C19_FailedUpdateLeavesPosition ==
    [][\A order_id \in DOMAIN gw_orders, event \in Events :
        \A filled_qty \in Qtys(event) :
            (/\ on_trade_updates(order_id, event, filled_qty)
             /\ err' = "KeyError") => position' = position]_vars

\* C20: in every reachable state total_shares - pending_sell_shares >= 0,
\* and so total_shares >= 0.
C20_NeverOversold ==
    /\ position.total_shares - position.pending_sell_shares >= 0
    /\ position.total_shares >= 0

====
